---- MODULE Spec2Model ----
(***************************************************************************)
(* State-store provisioning steps of the cluster controller                *)
(* (internal/controller/state.go): StateStoreCredentials and               *)
(* StateStoreCreate, each a checkpoint-gated sequence of blocking calls to *)
(* the cluster record store (GetCluster / UpdateCluster) and to one        *)
(* provider adapter.  Every blocking call is one step of an invocation, so *)
(* that two controllers working on the same cluster record interleave at   *)
(* exactly the points where the Go code can be preempted by the other.     *)
(***************************************************************************)
EXTENDS Integers, Sequences, FiniteSets, TLC

VARIABLES
    clctrl,     \* the controller's configuration (CloudProvider, static AWS keys)
    env,        \* process environment read by the digitalocean branch
    cluster,    \* the persisted cluster record (MdbCl)
    globals,    \* package-level variables of state.go
    inv,        \* per controller: the invocation in progress (position, locals, logs)
    started     \* number of invocations started so far

vars == <<clctrl, env, cluster, globals, inv, started>>

\* ------------------------------------------------------------------ bounds

\* Total number of step invocations started in one behaviour.
MaxInvocations == 3

\* The same, when two controllers run concurrently.
MaxConcInvocations == 2

\* ------------------------------------------------------------- the domain

Procs == {"p1", "p2"}

Providers == {"aws", "civo", "digitalocean", "vultr", "k3d"}

KubefirstStateStoreBucketName == "k1-state-store"
KubefirstArtifactsBucketName == "k1-artifacts"
CloudRegion == "nyc1"
ClusterName == "demo"

nil == <<>>

\* An error value is a sequence of message parts; wrapping puts context in front.
AdapterError(fn) == <<"E", fn>>
StoreError(op, field) == <<"E", op, field>>

EmptyCreds ==
    [AccessKeyID |-> "", SecretAccessKey |-> "", Name |-> "", ID |-> ""]

EmptyDetails ==
    [Name |-> "", ID |-> "", Hostname |-> "",
     AWSStateStoreBucket |-> <<>>, AWSArtifactsBucket |-> <<>>]

\* The record as the earlier (out of scope) step leaves it.
FreshCluster ==
    [StateStoreCredsCheck |-> FALSE, StateStoreCreateCheck |-> FALSE,
     StateStoreCredentials |-> EmptyCreds, StateStoreDetails |-> EmptyDetails]

\* --------------------------------------------------- what adapters may return

\* Bucket locations as character sequences, as returned by AwsClient.CreateBucket.
AwsLocations == { <<"/", "b">>, <<"/", "b", "/", "c">> }

StrVals == {"", "v"}

\* civogo.ObjectStoreCredential values: every field possibly empty.
CivoCredsSet ==
    [AccessKeyID : StrVals, ID : StrVals, Name : StrVals, SecretAccessKeyID : StrVals]

VultrObjects ==
    { [S3AccessKey |-> "vk", S3SecretKey |-> "vs", Label |-> KubefirstStateStoreBucketName,
       ID |-> id, S3Hostname |-> "ewr1.vultrobjects.com"] : id \in {"o1", "o2"} }

CivoBuckets ==
    { [Name |-> KubefirstStateStoreBucketName, ID |-> id] : id \in {"b1", "b2"} }

\* ------------------------------------------------------------ pure helpers

\* strings.ReplaceAll(s, "/", "")
ReplaceAllSlash(s) == SelectSeq(s, LAMBDA c : c # "/")

\* fmt.Errorf("error creating vultr state storage bucket: %s", err)
VultrBucketError(err) == <<"error creating vultr state storage bucket: ">> \o err

\* --- fmt.Errorf(msg) of line 108: msg is used as the format, with no operands.
\* A text is a sequence of parts, one character each; a part of several
\* characters stands for a piece of text that holds no '%' and follows none.

Digits == {"0", "1", "2", "3", "4", "5", "6", "7", "8", "9"}

DigitValue(c) ==
    CASE c = "0" -> 0 [] c = "1" -> 1 [] c = "2" -> 2 [] c = "3" -> 3 [] c = "4" -> 4
      [] c = "5" -> 5 [] c = "6" -> 6 [] c = "7" -> 7 [] c = "8" -> 8 [] c = "9" -> 9

FormatFlags == {"#", "0", "+", "-", " "}

\* fmt.tooLarge
tooLarge(x) == x > 1000000 \/ x < -1000000

\* The texts fmt writes for a verb it cannot serve.
badWidthString == <<"%", "!", "(", "B", "A", "D", "W", "I", "D", "T", "H", ")">>
badPrecString == <<"%", "!", "(", "B", "A", "D", "P", "R", "E", "C", ")">>
noVerbString == <<"%", "!", "(", "N", "O", "V", "E", "R", "B", ")">>
missingString == <<"(", "M", "I", "S", "S", "I", "N", "G", ")">>
badIndexString == <<"(", "B", "A", "D", "I", "N", "D", "E", "X", ")">>

\* Positions are 1-based: position i of a text is Go's index i-1, and end is
\* Len + 1.

RECURSIVE parsenumLoop(_, _, _, _, _)
parsenumLoop(s, newi, end, num, isnum) ==
    IF newi < end /\ s[newi] \in Digits
    THEN IF tooLarge(num)
         THEN [num |-> 0, isnum |-> FALSE, newi |-> end]
         ELSE parsenumLoop(s, newi + 1, end, num * 10 + DigitValue(s[newi]), TRUE)
    ELSE [num |-> num, isnum |-> isnum, newi |-> newi]

\* fmt.parsenum
parsenum(s, start, end) ==
    IF start >= end
    THEN [num |-> 0, isnum |-> FALSE, newi |-> end]
    ELSE parsenumLoop(s, start, end, 0, FALSE)

\* fmt.parseArgNumber: format begins with '['; wid is the number of characters
\* taken.
parseArgNumber(format) ==
    LET closing == {k \in 2..Len(format) : format[k] = "]"}
    IN IF Len(format) < 3 \/ closing = {}
       THEN [index |-> 0, wid |-> 1, ok |-> FALSE]
       ELSE LET k == CHOOSE c \in closing : \A d \in closing : c <= d
                n == parsenum(format, 2, k)
            IN IF ~n.isnum \/ n.newi # k
               THEN [index |-> 0, wid |-> k, ok |-> FALSE]
               ELSE [index |-> n.num - 1, wid |-> k, ok |-> TRUE]

\* fmt.(*pp).argNumber with numArgs = 0: an index is never in range, so a '['
\* always clears goodArgNum.
argNumber(format, i, good) ==
    IF Len(format) < i \/ format[i] # "["
    THEN [i |-> i, found |-> FALSE, good |-> good]
    ELSE LET a == parseArgNumber(SubSeq(format, i, Len(format)))
         IN [i |-> i + a.wid, found |-> a.ok, good |-> FALSE]

RECURSIVE skipFlags(_, _)
skipFlags(format, i) ==
    IF i <= Len(format) /\ format[i] \in FormatFlags THEN skipFlags(format, i + 1) ELSE i

\* The stages of one verb of fmt.(*pp).doPrintf with no operands.  The scan state
\* st is [i, found, good, out]: the position, afterIndex, goodArgNum and what
\* the verb has written so far.

\* "Do we have width?": '*' finds no operand and writes badWidthString.
verbWidth(format, st) ==
    IF st.i <= Len(format) /\ format[st.i] = "*"
    THEN [i |-> st.i + 1, found |-> FALSE, good |-> st.good, out |-> st.out \o badWidthString]
    ELSE [i |-> parsenum(format, st.i, Len(format) + 1).newi,
          found |-> st.found,
          good |-> st.good /\ ~(st.found /\ parsenum(format, st.i, Len(format) + 1).isnum),
          out |-> st.out]

\* After the '.' of a precision: '*' finds no operand and writes badPrecString.
verbPrecisionValue(format, st) ==
    IF st.i <= Len(format) /\ format[st.i] = "*"
    THEN [i |-> st.i + 1, found |-> FALSE, good |-> st.good, out |-> st.out \o badPrecString]
    ELSE [st EXCEPT !.i = parsenum(format, st.i, Len(format) + 1).newi]

\* An argument index at st.i, if there is one.
verbIndex(format, st) ==
    [i |-> argNumber(format, st.i, st.good).i,
     found |-> argNumber(format, st.i, st.good).found,
     good |-> argNumber(format, st.i, st.good).good,
     out |-> st.out]

\* "Do we have precision?"
verbPrecision(format, st) ==
    IF st.i <= Len(format) /\ format[st.i] = "."
    THEN verbPrecisionValue(format,
             verbIndex(format, [st EXCEPT !.i = st.i + 1, !.good = st.good /\ ~st.found]))
    ELSE st

\* The index that may come last, then the verb itself: what is written and
\* where the scan goes on (i = 0: the scan ends).
verbEnd(format, st) ==
    IF st.i > Len(format)
    THEN [out |-> st.out \o noVerbString, i |-> 0]
    ELSE [out |-> st.out \o (CASE format[st.i] = "%" -> <<"%">>
                               [] format[st.i] # "%" /\ ~st.good ->
                                    <<"%", "!", format[st.i]>> \o badIndexString
                               [] OTHER -> <<"%", "!", format[st.i]>> \o missingString),
          i |-> st.i + 1]

verbLastIndex(format, st) == IF st.found THEN st ELSE verbIndex(format, st)

\* One verb, from the position after its '%'.
doVerb(format, start) ==
    verbEnd(format,
        verbLastIndex(format,
            verbPrecision(format,
                verbWidth(format,
                    verbIndex(format, [i |-> skipFlags(format, start), found |-> FALSE,
                                       good |-> TRUE, out |-> <<>>])))))

RECURSIVE doPrintf(_, _)
doPrintf(format, i) ==
    IF i > Len(format) THEN <<>>
    ELSE IF format[i] # "%" THEN <<format[i]>> \o doPrintf(format, i + 1)
    ELSE LET v == doVerb(format, i + 1)
         IN IF v.i = 0 THEN v.out ELSE v.out \o doPrintf(format, v.i)

\* fmt.Errorf(format) with no operands: the text of the error it returns.
Errorf(format) == doPrintf(format, 1)

\* fmt.Sprintf("error creating spaces bucket %s: %s", name, err)
SpacesBucketMessage(name, err) ==
    <<"error creating spaces bucket ">> \o name \o <<":", " ">> \o err

\* Lines 106-108: the message is formatted a second time by fmt.Errorf(msg).
SpacesBucketError(name, err) == Errorf(SpacesBucketMessage(name, err))

\* The characters of the bucket name.
KubefirstStateStoreBucketNameText ==
    <<"k", "1", "-", "s", "t", "a", "t", "e", "-", "s", "t", "o", "r", "e">>

\* Error texts of digitalocean.CreateSpaceBucket: without '%', and with '%'
\* before a flag and a verb, before a width and a verb, at the end, and doubled.
SpacesErrors ==
    { <<"E", "O", "F">>,
      <<"5", "0", "%", " ", "d", "o", "n", "e">>,
      <<"a", "%", "2", "F", "b">>,
      <<"1", "0", "0", "%">>,
      <<"a", "%", "%", "b">> }

DigitaloceanEndpoint == "nyc3.digitaloceanspaces.com"

\* Mutant of CivoCredsFailureMessage: the SecretAccessKeyID case is missing.
CivoCredsFailureMessageNoSecret(creds) ==
    CASE creds.AccessKeyID = "" ->
           "when retrieving civo access credentials, AccessKeyID was empty - please retry your cluster creation"
      [] creds.ID = "" ->
           "when retrieving civo access credentials, ID was empty - please retry your cluster creation"
      [] creds.Name = "" ->
           "when retrieving civo access credentials, Name was empty - please retry your cluster creation"
      [] OTHER -> ""

\* Mutant of CivoCredsFailureMessage: Name is checked before ID.
CivoCredsFailureMessageNameFirst(creds) ==
    CASE creds.AccessKeyID = "" ->
           "when retrieving civo access credentials, AccessKeyID was empty - please retry your cluster creation"
      [] creds.Name = "" ->
           "when retrieving civo access credentials, Name was empty - please retry your cluster creation"
      [] creds.ID = "" ->
           "when retrieving civo access credentials, ID was empty - please retry your cluster creation"
      [] creds.SecretAccessKeyID = "" ->
           "when retrieving civo access credentials, SecretAccessKeyID was empty - please retry your cluster creation"
      [] OTHER -> ""

\* The switch of lines 66-75: the message for the first empty field, "" if none.
CivoCredsFailureMessage(creds) ==
    CASE creds.AccessKeyID = "" ->
           "when retrieving civo access credentials, AccessKeyID was empty - please retry your cluster creation"
      [] creds.ID = "" ->
           "when retrieving civo access credentials, ID was empty - please retry your cluster creation"
      [] creds.Name = "" ->
           "when retrieving civo access credentials, Name was empty - please retry your cluster creation"
      [] creds.SecretAccessKeyID = "" ->
           "when retrieving civo access credentials, SecretAccessKeyID was empty - please retry your cluster creation"
      [] OTHER -> ""

\* stateStoreData of each provider branch.
AwsStateStoreData(ctrl) ==
    [AccessKeyID |-> ctrl.AwsAccessKeyID, SecretAccessKey |-> ctrl.AwsSecretAccessKey,
     Name |-> "", ID |-> ""]

CivoStateStoreData(creds) ==
    [AccessKeyID |-> creds.AccessKeyID, SecretAccessKey |-> creds.SecretAccessKeyID,
     Name |-> creds.Name, ID |-> creds.ID]

DigitaloceanCreds(e) ==
    [AccessKey |-> e.DO_SPACES_KEY, SecretAccessKey |-> e.DO_SPACES_SECRET,
     Endpoint |-> DigitaloceanEndpoint]

DigitaloceanStateStoreData(creds) ==
    [AccessKeyID |-> creds.AccessKey, SecretAccessKey |-> creds.SecretAccessKey,
     Name |-> KubefirstStateStoreBucketName, ID |-> ""]

\* vultr.VultrBucketCredentials built from the object storage, lines 138-142.
VultrBucketCredentials(objst) ==
    [AccessKey |-> objst.S3AccessKey, SecretAccessKey |-> objst.S3SecretKey,
     Endpoint |-> objst.S3Hostname]

VultrStateStoreData(objst) ==
    [AccessKeyID |-> objst.S3AccessKey, SecretAccessKey |-> objst.S3SecretKey,
     Name |-> objst.Label, ID |-> objst.ID]

\* StateStoreDetails written by each provider branch.
AwsStateStoreDetails(stateBucket, artifactsBucket) ==
    [EmptyDetails EXCEPT !.AWSStateStoreBucket = ReplaceAllSlash(stateBucket.Location),
                         !.AWSArtifactsBucket = ReplaceAllSlash(artifactsBucket.Location)]

DigitaloceanStateStoreDetails(creds) ==
    [EmptyDetails EXCEPT !.Name = KubefirstStateStoreBucketName, !.Hostname = creds.Endpoint]

VultrStateStoreDetails(objst) ==
    [EmptyDetails EXCEPT !.Name = objst.Label, !.ID = objst.ID, !.Hostname = objst.S3Hostname]

CivoStateStoreDetails(bucket) ==
    [EmptyDetails EXCEPT !.Name = bucket.Name, !.ID = bucket.ID]

\* Mutant of UpdateCluster: the document is replaced instead of one field being set.
UpdateClusterReplace(rec, field, value) ==
    CASE field = "state_store_details" -> [FreshCluster EXCEPT !.StateStoreDetails = value]
      [] field = "state_store_credentials" -> [FreshCluster EXCEPT !.StateStoreCredentials = value]
      [] field = "state_store_creds_check" -> [FreshCluster EXCEPT !.StateStoreCredsCheck = value]
      [] field = "state_store_create_check" -> [FreshCluster EXCEPT !.StateStoreCreateCheck = value]
      [] OTHER -> rec

\* MdbCl.UpdateCluster(name, field, value) when it succeeds: one named field is set.
UpdateCluster(rec, field, value) ==
    CASE field = "state_store_details" -> [rec EXCEPT !.StateStoreDetails = value]
      [] field = "state_store_credentials" -> [rec EXCEPT !.StateStoreCredentials = value]
      [] field = "state_store_creds_check" -> [rec EXCEPT !.StateStoreCredsCheck = value]
      [] field = "state_store_create_check" -> [rec EXCEPT !.StateStoreCreateCheck = value]
      [] OTHER -> rec

\* Mutant of CredentialsEntry: the step is skipped when the record already holds
\* an access key, instead of when the checkpoint is set.
CredentialsEntryByAccessKey(cl, cloudProvider) ==
    IF cl.StateStoreCredentials.AccessKeyID = ""
    THEN CASE cloudProvider = "aws" -> "aws_CreateBucket_state"
           [] cloudProvider = "civo" -> "civo_GetAccessCredentials"
           [] cloudProvider = "digitalocean" -> "do_CreateSpaceBucket"
           [] cloudProvider = "vultr" -> "vultr_CreateObjectStorage"
           [] OTHER -> "update_credentials"
    ELSE "done"

\* Mutant of CredentialsEntry: the digitalocean and vultr cases are exchanged.
CredentialsEntrySwapped(cl, cloudProvider) ==
    IF ~cl.StateStoreCredsCheck
    THEN CASE cloudProvider = "aws" -> "aws_CreateBucket_state"
           [] cloudProvider = "civo" -> "civo_GetAccessCredentials"
           [] cloudProvider = "vultr" -> "do_CreateSpaceBucket"
           [] cloudProvider = "digitalocean" -> "vultr_CreateObjectStorage"
           [] OTHER -> "update_credentials"
    ELSE "done"

\* Mutant of CredentialsEntry: the guard of line 33 is missing.
CredentialsEntryNoSkip(cl, cloudProvider) ==
    CASE cloudProvider = "aws" -> "aws_CreateBucket_state"
      [] cloudProvider = "civo" -> "civo_GetAccessCredentials"
      [] cloudProvider = "digitalocean" -> "do_CreateSpaceBucket"
      [] cloudProvider = "vultr" -> "vultr_CreateObjectStorage"
      [] OTHER -> "update_credentials"

\* Where StateStoreCredentials goes after a successful GetCluster: the guard of
\* line 33 and the switch of line 34 (no default case: an unmatched provider falls
\* through to the update of line 166).
CredentialsEntry(cl, cloudProvider) ==
    IF ~cl.StateStoreCredsCheck
    THEN CASE cloudProvider = "aws" -> "aws_CreateBucket_state"
           [] cloudProvider = "civo" -> "civo_GetAccessCredentials"
           [] cloudProvider = "digitalocean" -> "do_CreateSpaceBucket"
           [] cloudProvider = "vultr" -> "vultr_CreateObjectStorage"
           [] OTHER -> "update_credentials"
    ELSE "done"

\* Mutant of CreateEntry: the guard of line 189 is missing.
CreateEntryNoSkip(cl, cloudProvider) ==
    CASE cloudProvider = "civo" -> "civo_CreateStorageBucket"
      [] OTHER -> "done"

\* Mutant of CreateEntry: the bucket is created whatever the provider.
CreateEntryAllProviders(cl, cloudProvider) ==
    IF ~cl.StateStoreCreateCheck
    THEN "civo_CreateStorageBucket"
    ELSE "done"

\* Where StateStoreCreate goes after a successful GetCluster: lines 189-191.
CreateEntry(cl, cloudProvider) ==
    IF ~cl.StateStoreCreateCheck
    THEN CASE cloudProvider = "civo" -> "civo_CreateStorageBucket"
           [] OTHER -> "done"
    ELSE "done"

\* The value written to either checkpoint flag (lines 171 and 213).
CheckpointValue == TRUE

\* ------------------------------------------------------------ invocations

NoPrev ==
    [op |-> "none", calls |-> <<>>, updates |-> <<>>, ret |-> nil, rec0 |-> FreshCluster]

\* A controller between invocations.  cl, stateStoreData and
\* civoCredsFailureMessage are the Go locals; lookup is the outcome of GetCluster
\* ("none" before it, then "ok" or "failed"); calls and updates log the adapter
\* calls and the UpdateCluster calls the invocation has issued; ret is the returned
\* error; rec0 is the record when the invocation began; prev is the controller's
\* previous invocation.
IdleInv ==
    [op |-> "none", pc |-> "idle", cl |-> FreshCluster, stateStoreData |-> EmptyCreds,
     civoCredsFailureMessage |-> "", lookup |-> "none", calls |-> <<>>, updates |-> <<>>,
     ret |-> nil, rec0 |-> FreshCluster, prev |-> NoPrev]

Summary(i) ==
    [op |-> i.op, calls |-> i.calls, updates |-> i.updates, ret |-> i.ret, rec0 |-> i.rec0]

Call(fn, args, ok, result, err) ==
    [fn |-> fn, args |-> args, ok |-> ok, result |-> result, err |-> err]

Called(i, c) == [i EXCEPT !.calls = Append(@, c)]

Returned(i, err) == [i EXCEPT !.pc = "done", !.ret = err]

Init ==
    /\ clctrl \in [CloudProvider : Providers,
                   AwsAccessKeyID : {"", "AKIA"}, AwsSecretAccessKey : {"", "aws-secret"}]
    /\ (clctrl.AwsAccessKeyID = "") = (clctrl.AwsSecretAccessKey = "")
    /\ clctrl.CloudProvider # "aws" => clctrl.AwsAccessKeyID = ""
    /\ env \in [DO_SPACES_KEY : {"", "do-key"}, DO_SPACES_SECRET : {"", "do-secret"}]
    /\ (env.DO_SPACES_KEY = "") = (env.DO_SPACES_SECRET = "")
    /\ clctrl.CloudProvider # "digitalocean" => env.DO_SPACES_KEY = ""
    /\ cluster = FreshCluster
    /\ globals = [DigitaloceanStateStoreBucketName |-> "", VultrStateStoreBucketHostname |-> ""]
    /\ inv = [p \in Procs |-> IdleInv]
    /\ started = 0

\* A caller invokes one of the two steps on a controller that is not inside one.
Entered(i, op, rec) ==
    [IdleInv EXCEPT !.op = op, !.pc = "GetCluster", !.rec0 = rec, !.prev = Summary(i)]

BeginStateStoreCredentials(p, max) ==
    /\ inv[p].pc \in {"idle", "done"}
    /\ started < max
    /\ started' = started + 1
    /\ inv' = [inv EXCEPT ![p] = Entered(@, "StateStoreCredentials", cluster)]
    /\ UNCHANGED <<clctrl, env, cluster, globals>>

BeginStateStoreCreate(p, max) ==
    /\ inv[p].pc \in {"idle", "done"}
    /\ started < max
    /\ started' = started + 1
    /\ inv' = [inv EXCEPT ![p] = Entered(@, "StateStoreCreate", cluster)]
    /\ UNCHANGED <<clctrl, env, cluster, globals>>

\* Mutant of GetCluster: the error of the lookup is not checked, and the step goes
\* on with the zero-valued record.
GetClusterIgnoreError(p) ==
    /\ inv[p].pc = "GetCluster"
    /\ \E ok \in BOOLEAN :
          LET cl == IF ok THEN cluster ELSE FreshCluster
          IN inv' = [inv EXCEPT ![p] =
                       [@ EXCEPT !.cl = cl,
                                 !.lookup = IF ok THEN "ok" ELSE "failed",
                                 !.pc = IF inv[p].op = "StateStoreCredentials"
                                        THEN CredentialsEntry(cl, clctrl.CloudProvider)
                                        ELSE CreateEntry(cl, clctrl.CloudProvider)]]
    /\ UNCHANGED <<clctrl, env, cluster, globals, started>>

\* Lines 26-34 and 184-190: the snapshot read, and the dispatch on it.
GetCluster(p) ==
    /\ inv[p].pc = "GetCluster"
    /\ \/ inv' = [inv EXCEPT ![p] =
                    [@ EXCEPT !.cl = cluster,
                              !.lookup = "ok",
                              !.pc = IF inv[p].op = "StateStoreCredentials"
                                     THEN CredentialsEntry(cluster, clctrl.CloudProvider)
                                     ELSE CreateEntry(cluster, clctrl.CloudProvider)]]
       \/ inv' = [inv EXCEPT ![p] =
                    Returned([@ EXCEPT !.lookup = "failed"],
                             StoreError("GetCluster", ClusterName))]
    /\ UNCHANGED <<clctrl, env, cluster, globals, started>>

\* Mutant of DoUpdate: the error of UpdateCluster is not checked, and the
\* invocation goes on.
DoUpdateIgnoreError(p, field, value, next) ==
    \E ok \in BOOLEAN :
       /\ cluster' = IF ok THEN UpdateCluster(cluster, field, value) ELSE cluster
       /\ inv' = [inv EXCEPT ![p] =
                    [@ EXCEPT !.updates = Append(@, [field |-> field, value |-> value, ok |-> ok]),
                              !.pc = next]]
       /\ UNCHANGED globals

\* One UpdateCluster call: it succeeds and sets the field, or fails, leaves the
\* record alone and the invocation returns the store's error.
DoUpdate(p, field, value, next) ==
    \/ /\ cluster' = UpdateCluster(cluster, field, value)
       /\ inv' = [inv EXCEPT ![p] =
                    [@ EXCEPT !.updates = Append(@, [field |-> field, value |-> value, ok |-> TRUE]),
                              !.pc = next]]
       /\ UNCHANGED globals
    \/ /\ inv' = [inv EXCEPT ![p] =
                    Returned([@ EXCEPT !.updates =
                                 Append(@, [field |-> field, value |-> value, ok |-> FALSE])],
                             StoreError("UpdateCluster", field))]
       /\ UNCHANGED <<cluster, globals>>

\* --- aws, lines 36-57
AwsCreateStateBucket(p) ==
    /\ inv[p].pc = "aws_CreateBucket_state"
    /\ \/ \E loc \in AwsLocations :
            inv' = [inv EXCEPT ![p] =
                      [Called(@, Call("aws.CreateBucket",
                                      <<KubefirstStateStoreBucketName>>,
                                      TRUE, [Location |-> loc], nil))
                          EXCEPT !.pc = "aws_CreateBucket_artifacts"]]
       \/ inv' = [inv EXCEPT ![p] =
                    Returned(Called(@, Call("aws.CreateBucket",
                                            <<KubefirstStateStoreBucketName>>,
                                            FALSE, nil, AdapterError("aws.CreateBucket"))),
                             AdapterError("aws.CreateBucket"))]
    /\ UNCHANGED <<clctrl, env, cluster, globals, started>>

\* Mutant of AwsCreateArtifactsBucket: the credentials are persisted before the
\* second bucket is created, so a failed creation leaves them in the record.
AwsCreateArtifactsBucketAfterPersist(p) ==
    /\ inv[p].pc = "aws_CreateBucket_artifacts"
    /\ \/ /\ \E loc \in AwsLocations :
               inv' = [inv EXCEPT ![p] =
                         [Called(@, Call("aws.CreateBucket", <<KubefirstArtifactsBucketName>>,
                                         TRUE, [Location |-> loc], nil))
                             EXCEPT !.pc = "aws_update_details",
                                    !.stateStoreData = AwsStateStoreData(clctrl)]]
          /\ UNCHANGED cluster
       \/ /\ cluster' = UpdateCluster(cluster, "state_store_credentials", AwsStateStoreData(clctrl))
          /\ inv' = [inv EXCEPT ![p] =
                       Returned([Called(@, Call("aws.CreateBucket",
                                                <<KubefirstArtifactsBucketName>>,
                                                FALSE, nil, AdapterError("aws.CreateBucket")))
                                    EXCEPT !.updates = <<[field |-> "state_store_credentials",
                                                          value |-> AwsStateStoreData(clctrl),
                                                          ok |-> TRUE]>>],
                                AdapterError("aws.CreateBucket"))]
    /\ UNCHANGED <<clctrl, env, globals, started>>

AwsCreateArtifactsBucket(p) ==
    /\ inv[p].pc = "aws_CreateBucket_artifacts"
    /\ \/ \E loc \in AwsLocations :
            inv' = [inv EXCEPT ![p] =
                      [Called(@, Call("aws.CreateBucket",
                                      <<KubefirstArtifactsBucketName>>,
                                      TRUE, [Location |-> loc], nil))
                          EXCEPT !.pc = "aws_update_details",
                                 !.stateStoreData = AwsStateStoreData(clctrl)]]
       \/ inv' = [inv EXCEPT ![p] =
                    Returned(Called(@, Call("aws.CreateBucket",
                                            <<KubefirstArtifactsBucketName>>,
                                            FALSE, nil, AdapterError("aws.CreateBucket"))),
                             AdapterError("aws.CreateBucket"))]
    /\ UNCHANGED <<clctrl, env, cluster, globals, started>>

AwsUpdateDetails(p) ==
    /\ inv[p].pc = "aws_update_details"
    /\ DoUpdate(p, "state_store_details",
                AwsStateStoreDetails(inv[p].calls[1].result, inv[p].calls[2].result),
                "update_credentials")
    /\ UNCHANGED <<clctrl, env, started>>

\* --- civo, lines 59-92.  The error of GetAccessCredentials is only logged (line
\* 61); what decides is the credential object, whatever the call's error was.
CivoGetAccessCredentials(p) ==
    /\ inv[p].pc = "civo_GetAccessCredentials"
    /\ \E creds \in CivoCredsSet, err \in {nil, AdapterError("civo.GetAccessCredentials")} :
         LET msg == CivoCredsFailureMessage(creds)
             i == Called(inv[p], Call("civo.GetAccessCredentials",
                                      <<KubefirstStateStoreBucketName, CloudRegion>>,
                                      err = nil, creds, err))
         IN inv' = [inv EXCEPT ![p] =
                      IF msg # ""
                      THEN [i EXCEPT !.civoCredsFailureMessage = msg,
                                     !.pc = "civo_DeleteAccessCredentials"]
                      ELSE [i EXCEPT !.stateStoreData = CivoStateStoreData(creds),
                                     !.pc = "update_credentials"]]
    /\ UNCHANGED <<clctrl, env, cluster, globals, started>>

\* Mutant of CivoDeleteAccessCredentials: the delete's error is not checked, and
\* the validation error is returned in both outcomes.
CivoDeleteAccessCredentialsKeepMessage(p) ==
    /\ inv[p].pc = "civo_DeleteAccessCredentials"
    /\ \E ok \in BOOLEAN :
          inv' = [inv EXCEPT ![p] =
                    Returned(Called(@, Call("civo.DeleteAccessCredentials",
                                            <<KubefirstStateStoreBucketName, CloudRegion>>,
                                            ok, nil,
                                            IF ok THEN nil
                                            ELSE AdapterError("civo.DeleteAccessCredentials"))),
                             <<@.civoCredsFailureMessage>>)]
    /\ UNCHANGED <<clctrl, env, cluster, globals, started>>

\* Lines 76-85: the compensating delete, then the validation error (or the
\* delete's own error).
CivoDeleteAccessCredentials(p) ==
    /\ inv[p].pc = "civo_DeleteAccessCredentials"
    /\ \/ inv' = [inv EXCEPT ![p] =
                    Returned(Called(@, Call("civo.DeleteAccessCredentials",
                                            <<KubefirstStateStoreBucketName, CloudRegion>>,
                                            TRUE, nil, nil)),
                             <<@.civoCredsFailureMessage>>)]
       \/ inv' = [inv EXCEPT ![p] =
                    Returned(Called(@, Call("civo.DeleteAccessCredentials",
                                            <<KubefirstStateStoreBucketName, CloudRegion>>,
                                            FALSE, nil,
                                            AdapterError("civo.DeleteAccessCredentials"))),
                             AdapterError("civo.DeleteAccessCredentials"))]
    /\ UNCHANGED <<clctrl, env, cluster, globals, started>>

\* --- digitalocean, lines 94-125
DigitaloceanCreateSpaceBucket(p) ==
    /\ inv[p].pc = "do_CreateSpaceBucket"
    /\ \/ inv' = [inv EXCEPT ![p] =
                    [Called(@, Call("digitalocean.CreateSpaceBucket",
                                    <<DigitaloceanCreds(env), KubefirstStateStoreBucketName>>,
                                    TRUE, nil, nil))
                        EXCEPT !.stateStoreData = DigitaloceanStateStoreData(DigitaloceanCreds(env)),
                               !.pc = "do_update_details"]]
       \/ \E err \in SpacesErrors :
             inv' = [inv EXCEPT ![p] =
                       Returned(Called(@, Call("digitalocean.CreateSpaceBucket",
                                               <<DigitaloceanCreds(env), KubefirstStateStoreBucketName>>,
                                               FALSE, nil, err)),
                                SpacesBucketError(KubefirstStateStoreBucketNameText, err))]
    /\ UNCHANGED <<clctrl, env, cluster, globals, started>>

DigitaloceanUpdateDetails(p) ==
    /\ inv[p].pc = "do_update_details"
    /\ DoUpdate(p, "state_store_details",
                DigitaloceanStateStoreDetails(DigitaloceanCreds(env)),
                "do_set_bucket_name")
    /\ UNCHANGED <<clctrl, env, started>>

\* Line 125, after UpdateCluster has returned: the package variable is written
\* without synchronisation, in a step of its own.
DigitaloceanSetBucketName(p) ==
    /\ inv[p].pc = "do_set_bucket_name"
    /\ globals' = [globals EXCEPT
                      !.DigitaloceanStateStoreBucketName = DigitaloceanCreds(env).Endpoint]
    /\ inv' = [inv EXCEPT ![p].pc = "update_credentials"]
    /\ UNCHANGED <<clctrl, env, cluster, started>>

\* --- vultr, lines 127-163
VultrCreateObjectStorage(p) ==
    /\ inv[p].pc = "vultr_CreateObjectStorage"
    /\ \/ \E objst \in VultrObjects :
            inv' = [inv EXCEPT ![p] =
                      [Called(@, Call("vultr.CreateObjectStorage",
                                      <<CloudRegion, KubefirstStateStoreBucketName>>,
                                      TRUE, objst, nil))
                          EXCEPT !.pc = "vultr_CreateObjectStorageBucket"]]
       \/ inv' = [inv EXCEPT ![p] =
                    Returned(Called(@, Call("vultr.CreateObjectStorage",
                                            <<CloudRegion, KubefirstStateStoreBucketName>>,
                                            FALSE, nil,
                                            AdapterError("vultr.CreateObjectStorage"))),
                             AdapterError("vultr.CreateObjectStorage"))]
    /\ UNCHANGED <<clctrl, env, cluster, globals, started>>

VultrCreateObjectStorageBucket(p) ==
    /\ inv[p].pc = "vultr_CreateObjectStorageBucket"
    /\ \/ inv' = [inv EXCEPT ![p] =
                    [Called(@, Call("vultr.CreateObjectStorageBucket",
                                    <<VultrBucketCredentials(inv[p].calls[1].result), KubefirstStateStoreBucketName>>,
                                    TRUE, nil, nil))
                        EXCEPT !.stateStoreData = VultrStateStoreData(inv[p].calls[1].result),
                               !.pc = "vultr_update_details"]]
       \/ inv' = [inv EXCEPT ![p] =
                    Returned(Called(@, Call("vultr.CreateObjectStorageBucket",
                                            <<VultrBucketCredentials(inv[p].calls[1].result), KubefirstStateStoreBucketName>>,
                                            FALSE, nil,
                                            AdapterError("vultr.CreateObjectStorageBucket"))),
                             VultrBucketError(AdapterError("vultr.CreateObjectStorageBucket")))]
    /\ UNCHANGED <<clctrl, env, cluster, globals, started>>

VultrUpdateDetails(p) ==
    /\ inv[p].pc = "vultr_update_details"
    /\ LET objst == inv[p].calls[1].result
       IN DoUpdate(p, "state_store_details", VultrStateStoreDetails(objst),
                   "vultr_set_bucket_hostname")
    /\ UNCHANGED <<clctrl, env, started>>

\* Line 163, after UpdateCluster has returned: the package variable is written
\* without synchronisation, in a step of its own.
VultrSetBucketHostname(p) ==
    /\ inv[p].pc = "vultr_set_bucket_hostname"
    /\ globals' = [globals EXCEPT
                      !.VultrStateStoreBucketHostname = inv[p].calls[1].result.S3Hostname]
    /\ inv' = [inv EXCEPT ![p].pc = "update_credentials"]
    /\ UNCHANGED <<clctrl, env, cluster, started>>

\* --- lines 166-179, common to every provider branch
UpdateCredentials(p) ==
    /\ inv[p].pc = "update_credentials"
    /\ DoUpdate(p, "state_store_credentials", inv[p].stateStoreData,
                "update_creds_check")
    /\ UNCHANGED <<clctrl, env, started>>

UpdateCredsCheck(p) ==
    /\ inv[p].pc = "update_creds_check"
    /\ DoUpdate(p, "state_store_creds_check", CheckpointValue, "done")
    /\ UNCHANGED <<clctrl, env, started>>

\* --- StateStoreCreate, civo, lines 194-216.  The access key is the one of the
\* snapshot; nothing checks that it is set.
CivoCreateStorageBucket(p) ==
    /\ inv[p].pc = "civo_CreateStorageBucket"
    /\ LET accessKeyId == inv[p].cl.StateStoreCredentials.AccessKeyID
       IN \/ \E bucket \in CivoBuckets :
               inv' = [inv EXCEPT ![p] =
                         [Called(@, Call("civo.CreateStorageBucket",
                                         <<accessKeyId, KubefirstStateStoreBucketName, CloudRegion>>,
                                         TRUE, bucket, nil))
                             EXCEPT !.pc = "create_update_details"]]
          \/ inv' = [inv EXCEPT ![p] =
                       Returned(Called(@, Call("civo.CreateStorageBucket",
                                               <<accessKeyId, KubefirstStateStoreBucketName, CloudRegion>>,
                                               FALSE, nil,
                                               AdapterError("civo.CreateStorageBucket"))),
                                AdapterError("civo.CreateStorageBucket"))]
    /\ UNCHANGED <<clctrl, env, cluster, globals, started>>

CreateUpdateDetails(p) ==
    /\ inv[p].pc = "create_update_details"
    /\ DoUpdate(p, "state_store_details", CivoStateStoreDetails(inv[p].calls[1].result),
                "update_create_check")
    /\ UNCHANGED <<clctrl, env, started>>

UpdateCreateCheck(p) ==
    /\ inv[p].pc = "update_create_check"
    /\ DoUpdate(p, "state_store_create_check", CheckpointValue, "done")
    /\ UNCHANGED <<clctrl, env, started>>

\* ------------------------------------------------------- specifications

Step(p, max) ==
    \/ BeginStateStoreCredentials(p, max)
    \/ BeginStateStoreCreate(p, max)
    \/ GetCluster(p)
    \/ AwsCreateStateBucket(p)
    \/ AwsCreateArtifactsBucket(p)
    \/ AwsUpdateDetails(p)
    \/ CivoGetAccessCredentials(p)
    \/ CivoDeleteAccessCredentials(p)
    \/ DigitaloceanCreateSpaceBucket(p)
    \/ DigitaloceanUpdateDetails(p)
    \/ DigitaloceanSetBucketName(p)
    \/ VultrCreateObjectStorage(p)
    \/ VultrCreateObjectStorageBucket(p)
    \/ VultrUpdateDetails(p)
    \/ VultrSetBucketHostname(p)
    \/ UpdateCredentials(p)
    \/ UpdateCredsCheck(p)
    \/ CivoCreateStorageBucket(p)
    \/ CreateUpdateDetails(p)
    \/ UpdateCreateCheck(p)

\* Single writer per cluster: one controller, one invocation at a time.
Next == Step("p1", MaxInvocations)

Spec == Init /\ [][Next]_vars

\* Two controllers on the same cluster record, interleaved at every blocking call.
NextConc == \E p \in Procs : Step(p, MaxConcInvocations)

SpecConc == Init /\ [][NextConc]_vars

\* ------------------------------------------------------------------ claims

DataFields == {"state_store_details", "state_store_credentials"}

CheckFields == {"state_store_creds_check", "state_store_create_check"}

CheckFieldOf(op) ==
    IF op = "StateStoreCreate" THEN "state_store_create_check" ELSE "state_store_creds_check"

CheckOf(rec, op) ==
    IF op = "StateStoreCreate" THEN rec.StateStoreCreateCheck ELSE rec.StateStoreCredsCheck

CountCalls(i, fn) == Cardinality({k \in DOMAIN i.calls : i.calls[k].fn = fn})

IsStoreError(e) == Len(e) = 3 /\ e[1] = "E" /\ e[2] \in {"GetCluster", "UpdateCluster"}

\* ret is err with context put in front of it.
IsWrapOf(ret, err) ==
    /\ Len(ret) > Len(err)
    /\ SubSeq(ret, Len(ret) - Len(err) + 1, Len(ret)) = err

\* C1: an invocation of StateStoreCredentials whose snapshot has
\* stateStoreCredsCheck true has returned nil, having made no adapter call and
\* issued no UpdateCluster call, whatever the provider.
C1_IdempotentSkip ==
    \A p \in Procs :
        (inv[p].op = "StateStoreCredentials" /\ inv[p].cl.StateStoreCredsCheck)
            => /\ inv[p].pc = "done"
               /\ inv[p].calls = <<>>
               /\ inv[p].updates = <<>>
               /\ inv[p].ret = nil

C1_Witness ==
    \E p \in Procs :
        /\ inv[p].op = "StateStoreCredentials"
        /\ inv[p].pc = "done"
        /\ inv[p].rec0.StateStoreCredsCheck
        /\ inv[p].cl.StateStoreCredsCheck

\* C2: in every invocation of either step, the checkpoint flag is the last update
\* issued and is issued only after data-field updates that all succeeded; a failed
\* update is the invocation's last one and ends it with an error; and after a
\* failed data-field update the step's checkpoint is still false.
C2_CheckpointWrittenLast ==
    \A p \in Procs :
        LET i == inv[p]
            u == i.updates
        IN /\ \A k \in DOMAIN u :
                /\ u[k].field \in CheckFields
                      => /\ k = Len(u)
                         /\ k > 1
                         /\ u[k].field = CheckFieldOf(i.op)
                         /\ \A j \in 1..(k - 1) : u[j].ok /\ u[j].field \in DataFields
                /\ ~u[k].ok => (k = Len(u) /\ i.pc = "done" /\ i.ret # nil)
           /\ (u # <<>> /\ ~u[Len(u)].ok /\ u[Len(u)].field \in DataFields)
                 => ~CheckOf(cluster, i.op)

C2_Witness ==
    \E p \in Procs :
        /\ inv[p].pc = "done"
        /\ Len(inv[p].updates) = 2
        /\ inv[p].updates[1].ok
        /\ inv[p].updates[2].field = "state_store_credentials"
        /\ ~inv[p].updates[2].ok
        /\ ~cluster.StateStoreCredsCheck

\* C3: whenever stateStoreCredsCheck is true, the persisted stateStoreCredentials
\* has a non-empty accessKeyID and a non-empty secretAccessKey.
C3_CredentialsInvariant ==
    cluster.StateStoreCredsCheck
        => /\ cluster.StateStoreCredentials.AccessKeyID # ""
           /\ cluster.StateStoreCredentials.SecretAccessKey # ""

\* C4: an invocation of StateStoreCreate for a civo cluster whose snapshot has the
\* create checkpoint false and an empty stateStoreCredentials.accessKeyID returns
\* an error, calls no adapter and updates no field.
C4_FailFastBeforeStep1 ==
    \A p \in Procs :
        ( /\ inv[p].op = "StateStoreCreate"
          /\ clctrl.CloudProvider = "civo"
          /\ inv[p].pc \notin {"idle", "GetCluster"}
          /\ ~inv[p].cl.StateStoreCreateCheck
          /\ inv[p].cl.StateStoreCredentials.AccessKeyID = "" )
            => /\ inv[p].pc = "done"
               /\ inv[p].ret # nil
               /\ inv[p].calls = <<>>
               /\ inv[p].updates = <<>>

\* C5: when an adapter call made by StateStoreCredentials failed, the invocation
\* returns that call's error, as it is or with context in front of it.
C5_AdapterErrorsNeverSwallowed ==
    \A p \in Procs :
        (inv[p].op = "StateStoreCredentials" /\ inv[p].pc = "done")
            => \A k \in DOMAIN inv[p].calls :
                  ~inv[p].calls[k].ok
                      => \/ inv[p].ret = inv[p].calls[k].err
                         \/ IsWrapOf(inv[p].ret, inv[p].calls[k].err)

\* The invocation returned an error that is not the record store's: an adapter
\* call failed, or the civo credentials failed validation.
EndedOnProviderFailure(i) == i.pc = "done" /\ i.ret # nil /\ ~IsStoreError(i.ret)

\* C6: an invocation of StateStoreCredentials that ended on a failed adapter call
\* or on a failed civo validation has issued no UpdateCluster call, and the record
\* is the one it started from, the credentials checkpoint still false.
C6_RecordUnchangedOnProviderFailure ==
    \A p \in Procs :
        (inv[p].op = "StateStoreCredentials" /\ EndedOnProviderFailure(inv[p]))
            => /\ inv[p].updates = <<>>
               /\ cluster = inv[p].rec0
               /\ ~cluster.StateStoreCredsCheck

C6_Witness ==
    \E p \in Procs :
        /\ inv[p].op = "StateStoreCredentials"
        /\ EndedOnProviderFailure(inv[p])
        /\ Len(inv[p].calls) = 2
        /\ inv[p].calls[1].ok
        /\ inv[p].calls[2].fn = "aws.CreateBucket"
        /\ ~inv[p].calls[2].ok
        /\ inv[p].prev.op = "StateStoreCredentials"

\* The record rec0 with every field named by a successful update of u set to the
\* value of the last such update.
LastValue(u, field, default) ==
    LET ks == {k \in DOMAIN u : u[k].field = field /\ u[k].ok}
    IN IF ks = {} THEN default
       ELSE u[CHOOSE k \in ks : \A j \in ks : j <= k].value

Overlay(rec0, u) ==
    [StateStoreCredsCheck |-> LastValue(u, "state_store_creds_check", rec0.StateStoreCredsCheck),
     StateStoreCreateCheck |-> LastValue(u, "state_store_create_check", rec0.StateStoreCreateCheck),
     StateStoreCredentials |-> LastValue(u, "state_store_credentials", rec0.StateStoreCredentials),
     StateStoreDetails |-> LastValue(u, "state_store_details", rec0.StateStoreDetails)]

FailedAtUpdate(q) == q.updates # <<>> /\ ~q.updates[Len(q.updates)].ok

Succeeded(i) ==
    /\ i.pc = "done"
    /\ i.ret = nil
    /\ i.updates # <<>>

\* C7: a successful invocation of StateStoreCredentials leaves the record it
\* started from with its own updates applied; and when the invocation before it
\* failed at an UpdateCluster call, with the adapter returning the same results in
\* both, the record is the one the successful invocation alone would have left from
\* the record the failed one started from, and the checkpoint went from false to
\* true once, in the second invocation.
C7_RetryConvergence ==
    LET i == inv["p1"]
        q == i.prev
    IN (i.op = "StateStoreCredentials" /\ Succeeded(i))
          => /\ cluster = Overlay(i.rec0, i.updates)
             /\ (q.op = "StateStoreCredentials" /\ FailedAtUpdate(q) /\ q.calls = i.calls)
                   => /\ cluster = Overlay(q.rec0, i.updates)
                      /\ ~q.rec0.StateStoreCredsCheck
                      /\ ~i.rec0.StateStoreCredsCheck
                      /\ cluster.StateStoreCredsCheck
                      /\ Cardinality({k \in DOMAIN i.updates :
                                        i.updates[k].field = "state_store_creds_check"}) = 1

C7_Witness ==
    LET i == inv["p1"]
        q == i.prev
    IN /\ i.op = "StateStoreCredentials"
       /\ Succeeded(i)
       /\ q.op = "StateStoreCredentials"
       /\ FailedAtUpdate(q)
       /\ Len(q.updates) = 2
       /\ q.updates[1].field = "state_store_details"
       /\ q.calls = i.calls
       /\ i.rec0 # q.rec0

\* C8: no step takes either checkpoint flag from true to false, and every value
\* written to a checkpoint flag is true.
C8_MonotoneCheckpoints ==
    /\ [][ /\ cluster.StateStoreCredsCheck => cluster'.StateStoreCredsCheck
           /\ cluster.StateStoreCreateCheck => cluster'.StateStoreCreateCheck ]_vars
    /\ [](\A p \in Procs : \A k \in DOMAIN inv[p].updates :
              inv[p].updates[k].field \in CheckFields => inv[p].updates[k].value = TRUE)

C8_Witness ==
    /\ cluster.StateStoreCredsCheck
    /\ \E p \in Procs :
          /\ inv[p].op = "StateStoreCreate"
          /\ inv[p].rec0.StateStoreCredsCheck
          /\ inv[p].updates # <<>>

CivoFieldOrder == <<"AccessKeyID", "ID", "Name", "SecretAccessKeyID">>

EmptyFields(creds) == {k \in DOMAIN CivoFieldOrder : creds[CivoFieldOrder[k]] = ""}

\* C9: at the return of a civo invocation of StateStoreCredentials that obtained a
\* credential object, DeleteAccessCredentials(bucketName, region) has been called
\* exactly once, right after GetAccessCredentials, and an error is returned, if one
\* of the four fields is empty; it has not been called if none is.
C9_CompensationExactlyOnce ==
    \A p \in Procs :
        LET i == inv[p]
        IN (i.op = "StateStoreCredentials" /\ i.pc = "done" /\ i.calls # <<>>
              /\ i.calls[1].fn = "civo.GetAccessCredentials")
              => IF EmptyFields(i.calls[1].result) # {}
                 THEN /\ CountCalls(i, "civo.DeleteAccessCredentials") = 1
                      /\ Len(i.calls) = 2
                      /\ i.calls[2].fn = "civo.DeleteAccessCredentials"
                      /\ i.calls[2].args = <<KubefirstStateStoreBucketName, CloudRegion>>
                      /\ i.ret # nil
                 ELSE CountCalls(i, "civo.DeleteAccessCredentials") = 0

C9_Witness ==
    \E p \in Procs :
        /\ inv[p].op = "StateStoreCredentials"
        /\ inv[p].pc = "done"
        /\ Len(inv[p].calls) = 2
        /\ inv[p].calls[1].fn = "civo.GetAccessCredentials"
        /\ EmptyFields(inv[p].calls[1].result) = {4}
        /\ inv[p].calls[2].fn = "civo.DeleteAccessCredentials"

FieldMessage(f) ==
    CASE f = "AccessKeyID" ->
           "when retrieving civo access credentials, AccessKeyID was empty - please retry your cluster creation"
      [] f = "ID" ->
           "when retrieving civo access credentials, ID was empty - please retry your cluster creation"
      [] f = "Name" ->
           "when retrieving civo access credentials, Name was empty - please retry your cluster creation"
      [] f = "SecretAccessKeyID" ->
           "when retrieving civo access credentials, SecretAccessKeyID was empty - please retry your cluster creation"

\* C10: when a civo credential object has an empty field and the compensating
\* delete succeeds, the returned error is the message of the first empty field in
\* the order AccessKeyID, ID, Name, SecretAccessKeyID.
C10_ValidationFieldOrder ==
    \A p \in Procs :
        LET i == inv[p]
        IN (i.op = "StateStoreCredentials" /\ i.pc = "done" /\ i.calls # <<>>
              /\ i.calls[1].fn = "civo.GetAccessCredentials"
              /\ EmptyFields(i.calls[1].result) # {}
              /\ Len(i.calls) = 2 /\ i.calls[2].ok)
              => LET e == EmptyFields(i.calls[1].result)
                     first == CHOOSE k \in e : \A j \in e : k <= j
                 IN i.ret = <<FieldMessage(CivoFieldOrder[first])>>

C10_Witness ==
    \E p \in Procs :
        /\ inv[p].op = "StateStoreCredentials"
        /\ inv[p].pc = "done"
        /\ Len(inv[p].calls) = 2
        /\ inv[p].calls[1].fn = "civo.GetAccessCredentials"
        /\ inv[p].calls[2].ok
        /\ EmptyFields(inv[p].calls[1].result) = {3, 4}
        /\ inv[p].ret = <<FieldMessage("Name")>>

\* C11: when the civo credential object fails validation and the compensating
\* DeleteAccessCredentials call fails, the invocation returns the delete call's
\* error, which is none of the validation messages, and has updated nothing: the
\* record is the one it started from, the checkpoint false.
C11_CompensationFailureMasks ==
    \A p \in Procs :
        LET i == inv[p]
        IN (i.op = "StateStoreCredentials" /\ i.pc = "done" /\ Len(i.calls) = 2
              /\ i.calls[2].fn = "civo.DeleteAccessCredentials" /\ ~i.calls[2].ok)
              => /\ EmptyFields(i.calls[1].result) # {}
                 /\ i.ret = i.calls[2].err
                 /\ \A k \in DOMAIN CivoFieldOrder : i.ret # <<FieldMessage(CivoFieldOrder[k])>>
                 /\ i.updates = <<>>
                 /\ cluster = i.rec0
                 /\ ~cluster.StateStoreCredsCheck

C11_Witness ==
    \E p \in Procs :
        /\ inv[p].op = "StateStoreCredentials"
        /\ inv[p].pc = "done"
        /\ Len(inv[p].calls) = 2
        /\ inv[p].calls[1].fn = "civo.GetAccessCredentials"
        /\ inv[p].calls[1].ok
        /\ EmptyFields(inv[p].calls[1].result) = {3}
        /\ ~inv[p].calls[2].ok
        /\ inv[p].ret = AdapterError("civo.DeleteAccessCredentials")

\* C12: stateStoreCreateCheck starts false, and every step that makes it true is
\* the last update of a StateStoreCreate invocation whose bucket-creation call
\* succeeded and whose state_store_details update, carrying that bucket's name and
\* id, succeeded before it; the record then holds those details.
C12_CreateCheckpointInvariant ==
    /\ ~cluster.StateStoreCreateCheck
    /\ [][ (~cluster.StateStoreCreateCheck /\ cluster'.StateStoreCreateCheck)
              => \E p \in Procs :
                    LET i == inv'[p]
                    IN /\ i.op = "StateStoreCreate"
                       /\ Len(i.calls) = 1
                       /\ i.calls[1].fn = "civo.CreateStorageBucket"
                       /\ i.calls[1].ok
                       /\ Len(i.updates) = 2
                       /\ i.updates[1].field = "state_store_details"
                       /\ i.updates[1].ok
                       /\ i.updates[1].value = CivoStateStoreDetails(i.calls[1].result)
                       /\ i.updates[2].field = "state_store_create_check"
                       /\ i.updates[2].ok
                       /\ cluster'.StateStoreDetails = CivoStateStoreDetails(i.calls[1].result) ]_vars

C12_Witness ==
    /\ cluster.StateStoreCreateCheck
    /\ cluster.StateStoreDetails.ID \in {b.ID : b \in CivoBuckets}
    /\ inv["p1"].prev.op = "StateStoreCreate"
    /\ inv["p1"].rec0.StateStoreCreateCheck

\* C13: an invocation of StateStoreCreate whose snapshot has stateStoreCreateCheck
\* true has returned nil, having made no adapter call and issued no UpdateCluster
\* call, and the record is the one it started from.
C13_IdempotentSkipCreate ==
    \A p \in Procs :
        (inv[p].op = "StateStoreCreate" /\ inv[p].cl.StateStoreCreateCheck)
            => /\ inv[p].pc = "done"
               /\ inv[p].calls = <<>>
               /\ inv[p].updates = <<>>
               /\ inv[p].ret = nil
               /\ cluster = inv[p].rec0

C13_Witness ==
    \E p \in Procs :
        /\ inv[p].op = "StateStoreCreate"
        /\ inv[p].pc = "done"
        /\ inv[p].rec0.StateStoreCreateCheck
        /\ inv[p].cl.StateStoreCreateCheck

\* Controller p is inside StateStoreCredentials and has called an adapter.
Provisioning(p) ==
    /\ inv[p].op = "StateStoreCredentials"
    /\ inv[p].pc \notin {"idle", "GetCluster", "done"}
    /\ inv[p].calls # <<>>

\* C14: two concurrent invocations of StateStoreCredentials can both provision
\* (the witness is that interleaving).  What the checkpoint does guarantee is only
\* that every invocation that calls an adapter read the checkpoint false, and
\* while two of them are provisioning at once the persisted checkpoint is still
\* false, so nothing in the record tells either of the other.
C14_ConcurrentDoubleProvision ==
    /\ \A p \in Procs :
          (inv[p].op = "StateStoreCredentials" /\ inv[p].calls # <<>>)
              => ~inv[p].cl.StateStoreCredsCheck
    /\ (\A p \in Procs : Provisioning(p)) => ~cluster.StateStoreCredsCheck

C14_Witness ==
    \A p \in Procs :
        /\ Provisioning(p)
        /\ ~inv[p].cl.StateStoreCredsCheck
        /\ inv[p].rec0 = FreshCluster
        /\ \A k \in DOMAIN inv[p].calls : inv[p].calls[k].ok
        /\ inv[p].pc = "update_credentials"

SupportedProviders == {"aws", "civo", "digitalocean", "vultr"}

\* The adapter functions of each provider, in the order a complete run of the
\* step calls them (the civo delete is the optional compensation).
ExpectedCalls(provider, op) ==
    IF op = "StateStoreCredentials"
    THEN CASE provider = "aws" -> {<<"aws.CreateBucket", "aws.CreateBucket">>}
           [] provider = "civo" ->
                {<<"civo.GetAccessCredentials">>,
                 <<"civo.GetAccessCredentials", "civo.DeleteAccessCredentials">>}
           [] provider = "digitalocean" -> {<<"digitalocean.CreateSpaceBucket">>}
           [] provider = "vultr" ->
                {<<"vultr.CreateObjectStorage", "vultr.CreateObjectStorageBucket">>}
    ELSE CASE provider = "civo" -> {<<"civo.CreateStorageBucket">>}
           [] OTHER -> {<<>>}

FnSeq(i) == [k \in DOMAIN i.calls |-> i.calls[k].fn]

IsPrefix(a, b) == Len(a) <= Len(b) /\ a = SubSeq(b, 1, Len(a))

\* C15: for each of aws, civo, digitalocean and vultr, the adapter calls of an
\* invocation of either step are, in order, a prefix of that provider's calls for
\* the step, and all of them once the invocation has advanced the checkpoint; the
\* two aws calls are for the state-store and the artifacts bucket.
C15_ProviderDispatch ==
    \A p \in Procs :
        LET i == inv[p]
            cp == clctrl.CloudProvider
        IN (cp \in SupportedProviders /\ i.op # "none")
              => /\ \E full \in ExpectedCalls(cp, i.op) : IsPrefix(FnSeq(i), full)
                 /\ Succeeded(i) => /\ FnSeq(i) \in ExpectedCalls(cp, i.op)
                                    /\ CountCalls(i, "civo.DeleteAccessCredentials") = 0
                 /\ (cp = "aws" /\ Len(i.calls) = 2)
                       => /\ i.calls[1].args = <<KubefirstStateStoreBucketName>>
                          /\ i.calls[2].args = <<KubefirstArtifactsBucketName>>

C15_Witness ==
    \E p \in Procs :
        /\ clctrl.CloudProvider = "vultr"
        /\ inv[p].op = "StateStoreCredentials"
        /\ Succeeded(inv[p])
        /\ FnSeq(inv[p]) = <<"vultr.CreateObjectStorage", "vultr.CreateObjectStorageBucket">>

\* C16: an invocation of either step whose GetCluster failed has returned the
\* lookup's error, has called no adapter and issued no update, and the record is
\* the one it started from.
C16_LookupFailureFatal ==
    \A p \in Procs :
        inv[p].lookup = "failed"
            => /\ inv[p].pc = "done"
               /\ inv[p].ret = StoreError("GetCluster", ClusterName)
               /\ inv[p].calls = <<>>
               /\ inv[p].updates = <<>>
               /\ cluster = inv[p].rec0

C16_Witness ==
    /\ inv["p1"].op = "StateStoreCreate"
    /\ inv["p1"].lookup = "failed"
    /\ inv["p1"].pc = "done"
    /\ inv["p1"].prev.op = "StateStoreCredentials"
    /\ inv["p1"].prev.ret = nil
    /\ cluster.StateStoreCredsCheck

\* The invocation went past the checkpoint guard into a provider branch.
Acted(i) ==
    /\ i.lookup = "ok"
    /\ (i.pc # "done" \/ i.calls # <<>> \/ i.updates # <<>>)

\* C17: two invocations of the same step, by either controller, whose snapshots
\* agree on the step's checkpoint flag took the same decision to act or to skip.
C17_DeterministicDecision ==
    \A p, q \in Procs :
        ( /\ inv[p].op # "none"
          /\ inv[p].op = inv[q].op
          /\ inv[p].lookup = "ok"
          /\ inv[q].lookup = "ok"
          /\ CheckOf(inv[p].cl, inv[p].op) = CheckOf(inv[q].cl, inv[q].op) )
            => Acted(inv[p]) = Acted(inv[q])

C17_Witness ==
    /\ inv["p1"].op = "StateStoreCredentials"
    /\ inv["p2"].op = "StateStoreCredentials"
    /\ inv["p1"].pc = "done"
    /\ inv["p2"].pc = "done"
    /\ FailedAtUpdate(inv["p1"])
    /\ inv["p1"].cl # inv["p2"].cl
    /\ ~inv["p2"].cl.StateStoreCredsCheck
    /\ Acted(inv["p1"])
    /\ Acted(inv["p2"])

CredentialsFields == {"state_store_credentials", "state_store_creds_check"}

\* C18: an invocation of StateStoreCredentials that writes
\* state_store_credentials or state_store_creds_check has made at least one
\* adapter call that succeeded.
C18_CheckpointRequiresProviderCall ==
    \A p \in Procs :
        ( /\ inv[p].op = "StateStoreCredentials"
          /\ \E k \in DOMAIN inv[p].updates : inv[p].updates[k].field \in CredentialsFields )
            => \E k \in DOMAIN inv[p].calls : inv[p].calls[k].ok

DeleteCalls(i) == CountCalls(i, "civo.DeleteAccessCredentials")

\* C19, as claimed: no step calls DeleteAccessCredentials while the cluster's
\* stateStoreCredsCheck is true.
C19_NeverDeletesCheckpointed ==
    [][\A p \in Procs :
          DeleteCalls(inv'[p]) > DeleteCalls(inv[p]) => ~cluster.StateStoreCredsCheck]_vars

\* C19, amended: DeleteAccessCredentials is called only by an invocation whose
\* own snapshot had stateStoreCredsCheck false and whose own credentials came
\* back incomplete; a concurrent invocation may have set the flag since the
\* snapshot was read.
C19_DeleteOnlyFromUncheckpointedSnapshot ==
    \A p \in Procs :
        (inv[p].pc = "civo_DeleteAccessCredentials" \/ DeleteCalls(inv[p]) > 0)
            => /\ inv[p].op = "StateStoreCredentials"
               /\ clctrl.CloudProvider = "civo"
               /\ ~inv[p].cl.StateStoreCredsCheck
               /\ inv[p].calls[1].fn = "civo.GetAccessCredentials"
               /\ EmptyFields(inv[p].calls[1].result) # {}

C19_Witness ==
    /\ DeleteCalls(inv["p2"]) = 1
    /\ ~inv["p2"].cl.StateStoreCredsCheck
    /\ cluster.StateStoreCredsCheck
    /\ Succeeded(inv["p1"])
    /\ inv["p1"].op = "StateStoreCredentials"

\* C20: for aws, digitalocean and vultr every invocation of StateStoreCreate
\* whose lookup succeeded calls no adapter, updates no field and returns nil,
\* and the create checkpoint stays false.
C20_CreateNoOpForNonCivo ==
    clctrl.CloudProvider \in {"aws", "digitalocean", "vultr"}
        => /\ ~cluster.StateStoreCreateCheck
           /\ \A p \in Procs :
                 inv[p].op = "StateStoreCreate"
                     => /\ inv[p].calls = <<>>
                        /\ inv[p].updates = <<>>
                        /\ inv[p].pc \in {"GetCluster", "done"}
                        /\ (inv[p].lookup = "ok" => inv[p].pc = "done" /\ inv[p].ret = nil)

C20_Witness ==
    /\ clctrl.CloudProvider = "aws"
    /\ inv["p1"].op = "StateStoreCreate"
    /\ inv["p1"].pc = "done"
    /\ inv["p1"].lookup = "ok"
    /\ inv["p1"].prev.op = "StateStoreCredentials"
    /\ inv["p1"].prev.ret = nil
    /\ cluster.StateStoreCredsCheck

====
